---- MODULE Spec2Model ----
(***************************************************************************)
(* Model of scripts/meta_analysis.py: the allele equalizer                 *)
(* (MetaDat.equalize), the per-study reader with its lookahead deque       *)
(* (Study.get_next_data, Study.put_back), the merge-join step              *)
(* (Study.get_match), the combiners (n_meta, inv_var_meta,                 *)
(* variance_weight_meta, do_meta) and the main loop (run).                 *)
(***************************************************************************)
EXTENDS Integers, Sequences, FiniteSets, TLC

VARIABLES
    self,       \* equalize: the record equalize is called on (mutable)
    other,      \* equalize: the record it is compared with
    ret,        \* equalize: "unset" before the call, then "True" | "False" | "None"
    self0,      \* equalize: self as it was before the call
    source,     \* Study: the rows of the study file after the header
    cursor,     \* Study: number of rows readline() has consumed from conf["fpoint"]
    future,     \* Study: self.future, the deque of records read but not consumed
    out,        \* the last call on the study and what it returned
    reads,      \* history: how often each row of source was fetched
    returned,   \* history: ids of the records get_match returned as a match
    discarded,  \* history: <<id, target chr, target pos>> of records get_match skipped
    lastTarget, \* history: <<chr, pos>> of the greatest target passed to get_match
    study_list, \* do_meta: the (Study, MetaDat) pairs it is called with
    meta,       \* do_meta: the methods of the call and what each combiner did
    studs,      \* run: per study of the configuration, its file, file position and future
    pc,         \* run: "header" | "pull" | "match" | "write" | "done" | "raised"
    d,          \* run: the anchor record of the current iteration
    oth,        \* run: index in studs of the study the inner loop is at
    matching_studies, \* run: the (study, record) pairs matched in this iteration
    outdat,     \* run: the fields of the output row built so far
    outfile,    \* run: the lines written, each with the anchor row it was written for
    calls       \* history: <<anchor row, study, result>> of the get_match calls of run

vars == <<self, other, ret, self0, source, cursor, future, out,
          reads, returned, discarded, lastTarget, study_list, meta,
          studs, pc, d, oth, matching_studies, outdat, outfile, calls>>

eqVars == <<self, other, ret, self0>>
studyVars == <<source, cursor, future, out, reads, returned, discarded, lastTarget>>
metaVars == <<study_list, meta>>
runVars == <<studs, pc, d, oth, matching_studies, outdat, outfile, calls>>

-----------------------------------------------------------------------------
(* Bounds of the model *)

MaxPos == 2     \* positions 1..MaxPos
MaxRows == 3    \* rows of a study file
MaxStudies == 2 \* pairs in a do_meta call
MaxCount == 2   \* n_cases and n_controls of a study are in 1..MaxCount
MaxRunRows == 2 \* rows of a study file in a whole run

-----------------------------------------------------------------------------
(* Values *)

\* chrord, for two of its keys: contig name to ordinal
chrord == [c \in {"1", "chrX"} |-> IF c = "1" THEN 1 ELSE 23]

\* a contig name that is not a key of chrord
OtherContig == "chrUn"

Bases == {"A", "C", "G", "T"}

\* a single-base allele string is a one-element sequence of bases
Alleles == {<<b>> : b \in Bases}

\* Python's None for a nullable number is the empty sequence, a number x is <<x>>
None == <<>>
Betas == {None, <<1>>, <<-1>>, <<2>>}

\* flip = {"A":"T","C":"G","T":"A","G":"C"}
flip == [b \in Bases |-> CASE b = "A" -> "T" [] b = "C" -> "G"
                           [] b = "T" -> "A" [] b = "G" -> "C"]

\* flip_strand: "".join([flip[a] for a in allele])
flip_strand(allele) == [i \in DOMAIN allele |-> flip[allele[i]]]

\* is_symmetric with the G/C order forgotten
is_symmetric_missing_GC(a1, a2) ==
    \/ (a1 = <<"A">> /\ a2 = <<"T">>)
    \/ (a1 = <<"T">> /\ a2 = <<"A">>)
    \/ (a1 = <<"C">> /\ a2 = <<"G">>)

is_symmetric(a1, a2) ==
    \/ (a1 = <<"A">> /\ a2 = <<"T">>)
    \/ (a1 = <<"T">> /\ a2 = <<"A">>)
    \/ (a1 = <<"C">> /\ a2 = <<"G">>)
    \/ (a1 = <<"G">> /\ a2 = <<"C">>)

\* a MetaDat; id is the index of the row it was parsed from (0: not from the
\* study under test, e.g. the anchor's record)
MetaDat(id, chr, pos, ref, alt, beta) ==
    [id |-> id, chr |-> chr, pos |-> pos, ref |-> ref, alt |-> alt, beta |-> beta]

\* -1 * self.beta if self.beta is not None else None
NegBeta(beta) == IF beta # None THEN << -1 * beta[1] >> ELSE None

\* the ref/alt swap with the effect left as it was
SwapAlleles_keep_sign(s) == [s EXCEPT !.alt = s.ref, !.ref = s.alt]

\* the ref/alt swap with the effect negated (lines 121-124 and 130-133)
SwapAlleles(s) == [s EXCEPT !.beta = NegBeta(s.beta), !.alt = s.ref, !.ref = s.alt]

\* equalize swapping ref/alt before it has decided, and reporting a mismatch
\* with the swap left in place
equalize_swap_then_test(s, o) ==
    IF s.chr = o.chr /\ s.pos = o.pos
    THEN IF (s.ref = o.ref /\ s.alt = o.alt)
         THEN [ret |-> "True", self |-> s]
         ELSE IF (s.ref = o.alt /\ s.alt = o.ref)
         THEN [ret |-> "True", self |-> SwapAlleles(s)]
         ELSE [ret |-> "False", self |-> SwapAlleles(s)]
    ELSE [ret |-> "None", self |-> s]

\* MetaDat.equalize: the value returned and self after the call
equalize(s, o) ==
    IF s.chr = o.chr /\ s.pos = o.pos
    THEN LET flip_ref == flip_strand(o.ref)
             flip_alt == flip_strand(o.alt)
         IN IF is_symmetric(o.ref, o.alt)
            THEN IF s.ref = o.ref /\ s.alt = o.alt
                 THEN [ret |-> "True", self |-> s]
                 ELSE IF s.ref = o.alt /\ s.alt = o.ref
                 THEN [ret |-> "True", self |-> SwapAlleles(s)]
                 ELSE [ret |-> "None", self |-> s]
            ELSE IF (s.ref = o.ref \/ s.ref = flip_ref) /\ (s.alt = o.alt \/ s.alt = flip_alt)
                 THEN [ret |-> "True", self |-> s]
                 ELSE IF (s.ref = o.alt \/ s.ref = flip_alt) /\ (s.alt = o.ref \/ s.alt = flip_alt)
                 THEN [ret |-> "True", self |-> SwapAlleles(s)]
                 ELSE [ret |-> "False", self |-> s]
    ELSE [ret |-> "None", self |-> s]

-----------------------------------------------------------------------------
(* Study: the reader, its deque and the merge-join step *)

\* chr in chrord (line 250)
InChrord(chr) == chr \in DOMAIN chrord

\* lines 255-282: the MetaDat parsed from row n of the file
RowDat(src, n) ==
    MetaDat(n, chrord[src[n].chr], src[n].pos, src[n].ref, src[n].alt, src[n].beta)

\* v.chr == w.chr and v.pos == w.pos (lines 240 and 284)
SameChrPos(v, w) == v.chr = w.chr /\ v.pos = w.pos

RECURSIVE PickFrom(_, _, _)
\* the elements of seq at the indices in S, from index i on, in order
PickFrom(seq, S, i) ==
    IF i > Len(seq) THEN <<>>
    ELSE (IF i \in S THEN <<seq[i]>> ELSE <<>>) \o PickFrom(seq, S, i + 1)

\* line 240: the (1-based) indices get_next_data takes out of a non-empty future
TakenIdx(fut) ==
    {i \in 1..Len(fut) : i = 1 \/ SameChrPos(fut[i], fut[i - 1])}

RECURSIVE NextSupported(_, _)
\* lines 250-256: with cur rows consumed, the index of the next row whose contig
\* is in chrord; 0 if readline returns "" before one is found
NextSupported(src, cur) ==
    IF cur >= Len(src) THEN 0
    ELSE IF InChrord(src[cur + 1].chr) THEN cur + 1
    ELSE NextSupported(src, cur + 1)

\* Body applied to value, with value computed once (Python evaluates the
\* right-hand side of an assignment once)
With(value, Body(_)) == CHOOSE y \in {Body(x) : x \in {value}} : TRUE

\* lines 288-290 done wrongly: the row is buffered and the file is also moved
\* back before it
Lookahead_rewind(fut, vs, v, n) ==
    [ret |-> "list", vars |-> vs, future |-> Append(fut, v), cursor |-> n - 1]

\* lines 288-290: a row of another position goes to future, the loop ends
Lookahead(fut, vs, v, n) ==
    [ret |-> "list", vars |-> vs, future |-> Append(fut, v), cursor |-> n]

RECURSIVE ReadRows(_, _, _, _, _)
\* lines 246-292: the while-True loop, with the list vars (vs) collected and cur
\* rows consumed so far; last is the last row readline returned
ReadRows(src, fut, vs, cur, just_one) ==
    With(NextSupported(src, cur), LAMBDA n :
        IF n = 0
        THEN [ret |-> "None", vars |-> <<>>, future |-> fut, cursor |-> Len(src),
              last |-> Len(src)]
        ELSE With(RowDat(src, n), LAMBDA v :
            IF Len(vs) = 0 \/ SameChrPos(vs[1], v)
            THEN IF just_one
                 THEN [ret |-> "list", vars |-> Append(vs, v), future |-> fut,
                       cursor |-> n, last |-> n]
                 ELSE ReadRows(src, fut, Append(vs, v), n, just_one)
            ELSE With(Lookahead(fut, vs, v, n), LAMBDA r :
                [ret |-> r.ret, vars |-> r.vars, future |-> r.future,
                 cursor |-> r.cursor, last |-> n])))

\* Study.get_next_data: what it returns ("None" or the list vars), future and
\* the file position after the call, and the set of rows readline returned
get_next_data(src, fut, cur, just_one) ==
    IF Len(fut) > 0
    THEN With(TakenIdx(fut), LAMBDA f :
            [ret |-> "list", vars |-> PickFrom(fut, f, 1),
             future |-> PickFrom(fut, (1..Len(fut)) \ f, 1),
             cursor |-> cur, fetched |-> {}])
    ELSE With(ReadRows(src, fut, <<>>, cur, just_one), LAMBDA r :
            [ret |-> r.ret, vars |-> r.vars, future |-> r.future,
             cursor |-> r.cursor, fetched |-> (cur + 1)..r.last])

\* put_back adding the records at the right end of the deque
put_back_append(fut, metadat) == fut \o metadat

RECURSIVE put_back(_, _)
\* Study.put_back: appendleft of each record of metadat in turn
put_back(fut, metadat) ==
    IF metadat = <<>> THEN fut
    ELSE put_back(<<Head(metadat)>> \o fut, Tail(metadat))

\* line 312: otherdats[0] sorts before dat
Before(v, dat) == v.chr < dat.chr \/ (v.chr = dat.chr /\ v.pos < dat.pos)

RECURSIVE SkipLoop(_, _, _)
\* lines 312-313: r is the last result of get_next_data, with the rows fetched
\* and the records skipped so far
SkipLoop(src, r, dat) ==
    IF r.ret # "None" /\ Before(r.vars[1], dat)
    THEN With(get_next_data(src, r.future, r.cursor, FALSE), LAMBDA n :
            With([ret |-> n.ret, vars |-> n.vars, future |-> n.future,
                  cursor |-> n.cursor, fetched |-> r.fetched \cup n.fetched,
                  skipped |-> r.skipped \o r.vars],
                 LAMBDA r2 : SkipLoop(src, r2, dat)))
    ELSE r

RECURSIVE Scan(_, _, _)
\* lines 322-326: equalize is called on otherdats[i], otherdats[i+1], ... until
\* one returns true; hit is its index (0: none) and otherdats holds the records
\* as the calls left them
Scan(otherdats, dat, i) ==
    IF i > Len(otherdats) THEN [hit |-> 0, otherdats |-> otherdats]
    ELSE With(equalize(otherdats[i], dat), LAMBDA e :
            With([otherdats EXCEPT ![i] = e.self], LAMBDA after :
                IF e.ret = "True" THEN [hit |-> i, otherdats |-> after]
                ELSE Scan(after, dat, i + 1)))

\* get_match returning None (lines 310, 316, 320, 330) with future left as f
MatchNone(r, f, scanned) ==
    [ret |-> "None", v |-> <<>>, future |-> f, cursor |-> r.cursor,
     fetched |-> r.fetched, skipped |-> r.skipped, scanned |-> scanned]

\* lines 318-330 without the del of line 327: the matched record is returned
\* and also pushed back with the rest
MatchAt_keep_hit(r, dat) ==
    IF r.vars[1].chr > dat.chr \/ r.vars[1].pos > dat.pos
    THEN MatchNone(r, put_back(r.future, r.vars), <<>>)
    ELSE With(Scan(r.vars, dat, 1), LAMBDA s :
            IF s.hit # 0
            THEN [ret |-> "match", v |-> s.otherdats[s.hit],
                  future |-> put_back(r.future, s.otherdats),
                  cursor |-> r.cursor, fetched |-> r.fetched,
                  skipped |-> r.skipped, scanned |-> r.vars]
            ELSE MatchNone(r, put_back(r.future, s.otherdats), r.vars))

\* lines 318-330: otherdats (r.vars) has reached or passed dat
MatchAt(r, dat) ==
    IF r.vars[1].chr > dat.chr \/ r.vars[1].pos > dat.pos
    THEN MatchNone(r, put_back(r.future, r.vars), <<>>)
    ELSE With(Scan(r.vars, dat, 1), LAMBDA s :
            IF s.hit # 0
            THEN [ret |-> "match", v |-> s.otherdats[s.hit],
                  future |-> put_back(r.future,
                      PickFrom(s.otherdats, (1..Len(s.otherdats)) \ {s.hit}, 1)),
                  cursor |-> r.cursor, fetched |-> r.fetched,
                  skipped |-> r.skipped, scanned |-> r.vars]
            ELSE MatchNone(r, put_back(r.future, s.otherdats), r.vars))

\* Study.get_match: what it returns ("None" or the record v), future and the
\* file position after the call, the rows fetched, the records skipped by the
\* loop of line 312 and the list scanned by the loop of line 322
get_match(src, fut, cur, dat) ==
    With(get_next_data(src, fut, cur, FALSE), LAMBDA first :
        With([ret |-> first.ret, vars |-> first.vars, future |-> first.future,
              cursor |-> first.cursor, fetched |-> first.fetched, skipped |-> <<>>],
             LAMBDA r0 :
                IF r0.ret = "None" \/ Len(r0.vars) = 0
                THEN MatchNone(r0, r0.future, <<>>)
                ELSE With(SkipLoop(src, r0, dat), LAMBDA r :
                        IF r.ret = "None"
                        THEN MatchNone(r, r.future, <<>>)
                        ELSE MatchAt(r, dat))))

-----------------------------------------------------------------------------
(* The combiners.  Numbers are exact fractions n/d with d > 0; a p-value      *)
(* scipy.stats.norm.sf(abs(num) / sqrt(tot)) is kept as its arguments.        *)

Rat(num, den) == [n |-> num, d |-> den]

RatAdd(a, b) == Rat(a.n * b.d + b.n * a.d, a.d * b.d)

RatEq(a, b) == a.n * b.d = b.n * a.d

RECURSIVE RatSum(_)
\* sum(list)
RatSum(list) == IF list = <<>> THEN Rat(0, 1) ELSE RatAdd(Head(list), RatSum(Tail(list)))

\* numpy.sign
Sign(x) == IF x > 0 THEN 1 ELSE IF x < 0 THEN -1 ELSE 0

\* a field of a split line: text that float() converts to x, or text it
\* rejects with ValueError
Field(x) == [ok |-> TRUE, x |-> x]
NotANumber == [ok |-> FALSE, x |-> 0]

\* float(field): <<x>>, or None for ValueError
ParseFloat(field) == IF field.ok THEN <<field.x>> ELSE None

\* lines 269-274 and 94-97: the numbers of the MetaDat parsed from a row.  The
\* p-value is written as the z with pval = chi2.sf(z * z, df=1), so that
\* z_score is z.
ParseStats(row) ==
    LET pval == ParseFloat(row.pval)
        eff == ParseFloat(row.effect)
        failed == pval = None \/ eff = None
    IN [beta |-> IF failed THEN None ELSE eff,
        pval |-> IF failed THEN None ELSE pval,
        se |-> ParseFloat(row.se)]

\* Study.n_cases
n_cases(conf) == conf.n_cases

\* Study.n_controls
n_controls(conf) == conf.n_cases

\* Study.effective_size
effective_size(conf) ==
    Rat(4 * n_cases(conf) * n_controls(conf), n_cases(conf) + n_controls(conf))

\* what a combiner returns: "p" with the arguments of the p-value, "None", or
\* "raise" for an exception leaving the combiner
Result(r, num, tot) == [ret |-> r, num |-> num, tot |-> tot]

Raise == Result("raise", <<>>, Rat(0, 1))

Unavailable == Result("None", <<>>, Rat(0, 1))

\* line 36, 55: dat.se is None or dat.se == 0
NoSe(dat) == dat.se = None \/ dat.se = <<0>>

RECURSIVE n_loop(_, _, _, _)
\* lines 24-28: effs_size holds [w, sz] for the term sqrt(w) * sz;
\* numpy.sign(None) raises TypeError
n_loop(studies, i, effs_size, tot_size) ==
    IF i > Len(studies) THEN Result("p", effs_size, tot_size)
    ELSE LET study == studies[i].study
             dat == studies[i].dat
         IN IF dat.beta = None \/ dat.pval = None THEN Raise
            ELSE n_loop(studies, i + 1,
                        Append(effs_size, [w |-> effective_size(study),
                                           sz |-> Sign(dat.beta[1]) * dat.pval[1]]),
                        RatAdd(tot_size, effective_size(study)))

\* n_meta
n_meta(studies) == n_loop(studies, 1, <<>>, Rat(0, 1))

\* line 46: var * dat.beta
inv_var_term(dat) == Rat(dat.se[1] * dat.se[1] * dat.beta[1], 1)

RECURSIVE inv_var_loop(_, _, _, _)
\* lines 33-46: the loop breaks at a record without a standard error; var * None
\* raises TypeError
inv_var_loop(studies, i, effs_inv_var, tot_se) ==
    IF i > Len(studies) THEN Result("p", effs_inv_var, tot_se)
    ELSE LET dat == studies[i].dat
         IN IF NoSe(dat) THEN Result("p", effs_inv_var, tot_se)
            ELSE IF dat.beta = None THEN Raise
            ELSE inv_var_loop(studies, i + 1,
                              Append(effs_inv_var, inv_var_term(dat)),
                              RatAdd(tot_se, Rat(1, dat.se[1] * dat.se[1])))

\* line 48 and 64: the p-value if every record gave a term, else None
ReturnIfComplete(studies, r) ==
    IF r.ret = "raise" THEN Raise
    ELSE IF Len(r.num) = Len(studies)
         THEN IF r.tot.n = 0 THEN Raise ELSE Result("p", RatSum(r.num), r.tot)
         ELSE Unavailable

\* inv_var_meta
inv_var_meta(studies) ==
    ReturnIfComplete(studies, inv_var_loop(studies, 1, <<>>, Rat(0, 1)))

RECURSIVE variance_loop(_, _, _, _)
\* lines 51-63
variance_loop(studies, i, effs_se, tot_se) ==
    IF i > Len(studies) THEN Result("p", effs_se, tot_se)
    ELSE LET dat == studies[i].dat
         IN IF NoSe(dat) THEN Result("p", effs_se, tot_se)
            ELSE IF dat.beta = None \/ dat.pval = None THEN Raise
            ELSE variance_loop(studies, i + 1,
                               Append(effs_se, Rat(Sign(dat.beta[1]) * dat.pval[1], dat.se[1])),
                               RatAdd(tot_se, Rat(1, dat.se[1] * dat.se[1])))

\* variance_weight_meta
variance_weight_meta(studies) ==
    ReturnIfComplete(studies, variance_loop(studies, 1, <<>>, Rat(0, 1)))

\* the keys of SUPPORTED_METHODS
MethodNames == {"n", "inv_var", "variance"}

SUPPORTED_METHODS(m, studies) ==
    CASE m = "n" -> n_meta(studies)
      [] m = "inv_var" -> inv_var_meta(studies)
      [] m = "variance" -> variance_weight_meta(studies)

\* do_meta: the result of each method's combiner; the call raises if one does
do_meta(studies, methods) ==
    [k \in 1..Len(methods) |-> SUPPORTED_METHODS(methods[k], studies)]

-----------------------------------------------------------------------------
(* Specification of equalize alone: one call on any two records *)

EqRecords ==
    {MetaDat(0, chrord["1"], p, r, a, b) :
        p \in 1..MaxPos, r \in Alleles, a \in Alleles, b \in Betas}

NoCall == [op |-> "none"]

\* run has not started: no study is open
RunIdle ==
    /\ studs = <<>>
    /\ pc = "idle"
    /\ d = <<>>
    /\ oth = 0
    /\ matching_studies = <<>>
    /\ outdat = <<>>
    /\ outfile = <<>>
    /\ calls = <<>>

NoMeta == [methods |-> <<>>, met |-> <<>>]

MetaIdle ==
    /\ study_list = <<>>
    /\ meta = NoMeta

StudyIdle ==
    /\ source = <<>>
    /\ cursor = 0
    /\ future = <<>>
    /\ out = NoCall
    /\ reads = <<>>
    /\ returned = {}
    /\ discarded = {}
    /\ lastTarget = <<0, 0>>

\* the two records of a call, at one chr and at equal or different pos
InitEq ==
    /\ self \in EqRecords
    /\ other \in {o \in EqRecords : o.pos = 1 /\ o.beta = <<1>>}
    /\ ret = "unset"
    /\ self0 = self
    /\ StudyIdle
    /\ MetaIdle
    /\ RunIdle

CallEqualize ==
    /\ ret = "unset"
    /\ self' = equalize(self, other).self
    /\ ret' = equalize(self, other).ret
    /\ UNCHANGED <<other, self0>>
    /\ UNCHANGED studyVars
    /\ UNCHANGED metaVars
    /\ UNCHANGED runVars

NextEq == CallEqualize

SpecEq == InitEq /\ [][NextEq]_vars

-----------------------------------------------------------------------------
(* Specifications of one Study read through its methods *)

\* alleles of the rows of a source: G/A equalizes with the target A/G by a
\* swap, A/T does not equalize with it
RowAlleles == {<< <<"G">>, <<"A">> >>, << <<"A">>, <<"T">> >>}

\* the rows a file may hold: the fields of a split line
Rows ==
    {[chr |-> c, pos |-> p, ref |-> ra[1], alt |-> ra[2], beta |-> <<1>>] :
        c \in DOMAIN chrord, p \in 1..MaxPos, ra \in RowAlleles}
    \cup {[chr |-> OtherContig, pos |-> 1, ref |-> <<"G">>, alt |-> <<"A">>, beta |-> <<1>>]}

\* the file is sorted by (chr, pos) on the contigs of chrord
SortedSource(src) ==
    \A i, j \in 1..Len(src) :
        (i < j /\ InChrord(src[i].chr) /\ InChrord(src[j].chr))
            => ~Before(RowDat(src, j), RowDat(src, i))

Sources == {src \in UNION {[1..n -> Rows] : n \in 0..MaxRows} : SortedSource(src)}

\* the records of the anchor study that get_match is called with
Targets ==
    {MetaDat(0, chrord[c], p, <<"A">>, <<"G">>, <<1>>) : c \in DOMAIN chrord, p \in 1..MaxPos}

EqIdle ==
    /\ self = <<>>
    /\ other = <<>>
    /\ ret = "unset"
    /\ self0 = <<>>

\* Study.__init__: future is empty, the file is positioned after its header
Init ==
    /\ EqIdle
    /\ source \in Sources
    /\ cursor = 0
    /\ future = <<>>
    /\ out = NoCall
    /\ reads = [i \in 1..Len(source) |-> 0]
    /\ returned = {}
    /\ discarded = {}
    /\ lastTarget = <<0, 0>>
    /\ MetaIdle
    /\ RunIdle

Fetch(fetched) == [i \in 1..Len(source) |-> reads[i] + (IF i \in fetched THEN 1 ELSE 0)]

\* a call of get_next_data by the user of the Study
GetNextDataCall(just_one) ==
    \E r \in {get_next_data(source, future, cursor, just_one)} :
       /\ future' = r.future
       /\ cursor' = r.cursor
       /\ out' = [op |-> "get_next_data", ret |-> r.ret, vars |-> r.vars]
       /\ reads' = Fetch(r.fetched)
       /\ UNCHANGED <<source, returned, discarded, lastTarget>>
       /\ UNCHANGED eqVars
       /\ UNCHANGED metaVars
    /\ UNCHANGED runVars

\* a call of put_back with the list the get_next_data call before it returned
PutBackCall ==
    /\ out.op = "get_next_data"
    /\ out.ret = "list"
    /\ future' = put_back(future, out.vars)
    /\ out' = [op |-> "put_back", metadat |-> out.vars]
    /\ UNCHANGED <<source, cursor, reads, returned, discarded, lastTarget>>
    /\ UNCHANGED eqVars
    /\ UNCHANGED metaVars
    /\ UNCHANGED runVars

\* what a call of get_match with the record dat, computed as r, does to the Study
MatchEffect(dat, r) ==
    /\ future' = r.future
    /\ cursor' = r.cursor
    /\ out' = [op |-> "get_match", ret |-> r.ret, v |-> r.v, dat |-> dat,
               scanned |-> r.scanned]
    /\ reads' = Fetch(r.fetched)
    /\ UNCHANGED source
    /\ UNCHANGED eqVars
    /\ UNCHANGED metaVars
    /\ UNCHANGED runVars

\* a call of get_match by the user of the Study
GetMatchCall(dat) ==
    \E r \in {get_match(source, future, cursor, dat)} :
       /\ MatchEffect(dat, r)
       /\ UNCHANGED <<returned, discarded, lastTarget>>

\* the methods of a Study called in any order with any arguments
Next ==
    \/ \E just_one \in BOOLEAN : GetNextDataCall(just_one)
    \/ PutBackCall
    \/ \E dat \in Targets : GetMatchCall(dat)

Spec == Init /\ [][Next]_vars

\* a call of get_match by run (line 435), with the history of what became of
\* the records
RunGetMatch(dat) ==
    \E r \in {get_match(source, future, cursor, dat)} :
       /\ MatchEffect(dat, r)
       /\ returned' = IF r.ret = "match" THEN returned \cup {r.v.id} ELSE returned
       /\ discarded' = discarded \cup
              {<<r.skipped[i].id, dat.chr, dat.pos>> : i \in 1..Len(r.skipped)}
       /\ lastTarget' = <<dat.chr, dat.pos>>

\* run's use of a study that is not the first: get_match only, with the anchor's
\* records in the anchor file's order (non-decreasing chr, pos)
NextMatch ==
    \E dat \in Targets :
        /\ ~Before(dat, [chr |-> lastTarget[1], pos |-> lastTarget[2]])
        /\ RunGetMatch(dat)

SpecMatch == Init /\ [][NextMatch]_vars

-----------------------------------------------------------------------------
(* Specification of do_meta alone: one call on any list of pairs *)

\* the effect, p-value and standard error fields a row may hold
StatRows ==
    {[effect |-> e, pval |-> p, se |-> se] :
        e \in {NotANumber, Field(1), Field(-1), Field(2)},
        p \in {NotANumber, Field(1)},
        se \in {NotANumber, Field(0), Field(1), Field(2)}}

\* conf["n_cases"] and conf["n_controls"] of a study
StudyConfs == {[n_cases |-> c, n_controls |-> k] : c \in 1..MaxCount, k \in 1..MaxCount}

\* a study with a record parsed from a row of its file
Pairs == {[study |-> c, row |-> r, dat |-> ParseStats(r)] : c \in StudyConfs, r \in StatRows}

\* the lists run passes to do_meta hold the anchor and at least one match
\* (lines 440 and 450)
InitMeta ==
    /\ study_list \in UNION {[1..n -> Pairs] : n \in 2..MaxStudies}
    /\ meta = NoMeta
    /\ EqIdle
    /\ StudyIdle
    /\ RunIdle

\* the lists of methods a run may be configured with
MethodLists == {<<m>> : m \in MethodNames} \cup {<<"n", "inv_var", "variance">>}

CallDoMeta(methods) ==
    /\ meta = NoMeta
    /\ meta' = [methods |-> methods, met |-> do_meta(study_list, methods)]
    /\ UNCHANGED study_list
    /\ UNCHANGED eqVars
    /\ UNCHANGED studyVars
    /\ UNCHANGED runVars

NextMeta == \E methods \in MethodLists : CallDoMeta(methods)

SpecMeta == InitMeta /\ [][NextMeta]_vars

-----------------------------------------------------------------------------
(* Specification of run: the header, then one iteration per record of the   *)
(* first study, each with one get_match call per other study                *)

\* the names of the studies of the configuration, in its order; the first is
\* the anchor
StudyNames == <<"A", "B", "C">>

\* args.methods split at ","
RunMethods == <<"n">>

\* n_cases and n_controls of every study of the run
RunConf == [n_cases |-> 1, n_controls |-> 1]

\* a column name of the header: the study (or "" or "all") and the rest
Col(study, name) == <<study, name>>

\* lines 415-420: the columns of the study at index k > 1
StudyCols(k) ==
    <<Col(StudyNames[k], "beta"), Col(StudyNames[k], "pval")>>
        \o [m \in 1..Len(RunMethods) |-> Col(StudyNames[k], RunMethods[m])]

RECURSIVE OtherCols(_)
\* lines 414-420: the loop over studs[1:], from index k on
OtherCols(k) == IF k > Len(StudyNames) THEN <<>> ELSE StudyCols(k) \o OtherCols(k + 1)

\* lines 410-424: the header line (no study has extra columns)
HeaderLine ==
    <<Col("", "#CHR"), Col("", "POS"), Col("", "REF"), Col("", "ALT"),
      Col(StudyNames[1], "beta"), Col(StudyNames[1], "pval")>>
        \o OtherCols(2)
        \o <<Col("all", "meta_N")>>
        \o [m \in 1..Len(RunMethods) |-> Col("all", RunMethods[m])]

\* format_num: a field is written as the kind of text it holds
format_num(num) == IF num # None THEN "num" ELSE "NA"

\* format_num of what a combiner returned
format_met(res) == IF res.ret = "p" THEN "num" ELSE "NA"

\* ['NA'] * n
NAs(n) == [i \in 1..n |-> "NA"]

\* the numbers of a record of the run: rows carry the parsed effect, the
\* p-value is None exactly when the effect is (lines 269-274), and no study has
\* an se column
StatsOf(v) ==
    [beta |-> v.beta, pval |-> IF v.beta = None THEN None ELSE <<1>>, se |-> None]

\* the tuple (study, record) of lines 430, 438 and 439
Pair(v) == [study |-> RunConf, dat |-> StatsOf(v)]

\* do_meta raised
Raised(met) == \E k \in 1..Len(met) : met[k].ret = "raise"

\* the rows of the anchor's file: A/G at a position of contig 1, with an effect
\* that parsed or did not, or a row of a contig that is not in chrord
AnchorRows ==
    {[chr |-> "1", pos |-> p, ref |-> <<"A">>, alt |-> <<"G">>, beta |-> b] :
        p \in 1..MaxPos, b \in {<<1>>, None}}
    \cup {[chr |-> OtherContig, pos |-> 1, ref |-> <<"A">>, alt |-> <<"G">>, beta |-> <<1>>]}

\* the rows of the other studies' files: G/A, which equalizes with A/G by a swap
OtherRows ==
    {[chr |-> "1", pos |-> p, ref |-> <<"G">>, alt |-> <<"A">>, beta |-> <<1>>] :
        p \in 1..MaxPos}

RunSources(rows) ==
    {src \in UNION {[1..n -> rows] : n \in 0..MaxRunRows} : SortedSource(src)}

\* Study.__init__ on a file
Open(src) == [source |-> src, cursor |-> 0, future |-> <<>>]

\* lines 392-408: the studies are opened, nothing is written yet
InitRun ==
    /\ studs \in {<<Open(a)>> \o o :
                    a \in RunSources(AnchorRows),
                    o \in [1..(Len(StudyNames) - 1) -> {Open(src) : src \in RunSources(OtherRows)}]}
    /\ pc = "header"
    /\ d = <<>>
    /\ oth = 0
    /\ matching_studies = <<>>
    /\ outdat = <<>>
    /\ outfile = <<>>
    /\ calls = <<>>
    /\ EqIdle
    /\ StudyIdle
    /\ MetaIdle

\* lines 410-424
WriteHeader ==
    /\ pc = "header"
    /\ outfile' = <<[of |-> 0, fields |-> HeaderLine]>>
    /\ pc' = "pull"
    /\ UNCHANGED <<studs, d, oth, matching_studies, outdat, calls>>
    /\ UNCHANGED <<eqVars, studyVars, metaVars>>

\* lines 426-427 with the end of the anchor's stream not ending the loop
PullAnchor_ignores_end ==
    /\ pc = "pull"
    /\ \E r \in {get_next_data(studs[1].source, studs[1].future, studs[1].cursor, TRUE)} :
          /\ studs' = [studs EXCEPT ![1].future = r.future, ![1].cursor = r.cursor]
          /\ IF r.ret = "None"
             THEN /\ pc' = "pull"
                  /\ UNCHANGED <<d, oth, matching_studies, outdat>>
             ELSE /\ d' = r.vars[1]
                  /\ matching_studies' = <<Pair(r.vars[1])>>
                  /\ outdat' = <<"chr", "pos", "ref", "alt",
                                 format_num(r.vars[1].beta),
                                 format_num(StatsOf(r.vars[1]).pval)>>
                  /\ oth' = 2
                  /\ pc' = IF Len(studs) >= 2 THEN "match" ELSE "write"
    /\ UNCHANGED <<outfile, calls>>
    /\ UNCHANGED <<eqVars, studyVars, metaVars>>

\* lines 426 and 460 with the loop test of line 427 and lines 430-433
PullAnchor ==
    /\ pc = "pull"
    /\ \E r \in {get_next_data(studs[1].source, studs[1].future, studs[1].cursor, TRUE)} :
          /\ studs' = [studs EXCEPT ![1].future = r.future, ![1].cursor = r.cursor]
          /\ IF r.ret = "None"
             THEN /\ pc' = "done"
                  /\ UNCHANGED <<d, oth, matching_studies, outdat>>
             ELSE /\ d' = r.vars[1]
                  /\ matching_studies' = <<Pair(r.vars[1])>>
                  /\ outdat' = <<"chr", "pos", "ref", "alt",
                                 format_num(r.vars[1].beta),
                                 format_num(StatsOf(r.vars[1]).pval)>>
                  /\ oth' = 2
                  /\ pc' = IF Len(studs) >= 2 THEN "match" ELSE "write"
    /\ UNCHANGED <<outfile, calls>>
    /\ UNCHANGED <<eqVars, studyVars, metaVars>>

\* lines 434-446: one pass of the loop over studs[1:]
MatchOther ==
    /\ pc = "match"
    /\ \E r \in {get_match(studs[oth].source, studs[oth].future, studs[oth].cursor, d)} :
          /\ studs' = [studs EXCEPT ![oth].future = r.future, ![oth].cursor = r.cursor]
          /\ calls' = Append(calls, <<d.id, oth, r.ret>>)
          /\ IF r.ret = "match"
             THEN \E met \in {do_meta(<<Pair(d), Pair(r.v)>>, RunMethods)} :
                    IF Raised(met)
                    THEN /\ pc' = "raised"
                         /\ matching_studies' = Append(matching_studies, Pair(r.v))
                         /\ UNCHANGED <<oth, outdat>>
                    ELSE /\ matching_studies' = Append(matching_studies, Pair(r.v))
                         /\ outdat' = outdat
                               \o <<format_num(r.v.beta), format_num(StatsOf(r.v).pval)>>
                               \o [m \in 1..Len(met) |-> format_met(met[m])]
                         /\ oth' = oth + 1
                         /\ pc' = IF oth = Len(studs) THEN "write" ELSE "match"
             ELSE /\ outdat' = outdat \o NAs(2 + Len(RunMethods))
                  /\ oth' = oth + 1
                  /\ pc' = IF oth = Len(studs) THEN "write" ELSE "match"
                  /\ UNCHANGED matching_studies
    /\ UNCHANGED <<d, outfile>>
    /\ UNCHANGED <<eqVars, studyVars, metaVars>>

\* lines 448-458
WriteRow ==
    /\ pc = "write"
    /\ IF Len(matching_studies) > 1
       THEN \E met \in {do_meta(matching_studies, RunMethods)} :
              IF Raised(met)
              THEN /\ pc' = "raised"
                   /\ UNCHANGED outfile
              ELSE /\ outfile' = Append(outfile,
                          [of |-> d.id,
                           fields |-> outdat \o <<"N">>
                                        \o [m \in 1..Len(met) |-> format_met(met[m])]])
                   /\ pc' = "pull"
       ELSE /\ outfile' = Append(outfile,
                   [of |-> d.id, fields |-> outdat \o NAs(Len(RunMethods))])
            /\ pc' = "pull"
    /\ UNCHANGED <<studs, d, oth, matching_studies, outdat, calls>>
    /\ UNCHANGED <<eqVars, studyVars, metaVars>>

NextRun == WriteHeader \/ PullAnchor \/ MatchOther \/ WriteRow

SpecRun == InitRun /\ [][NextRun]_vars

\* run is one thread: it takes its next step as long as it has one
SpecRunFair == SpecRun /\ WF_vars(NextRun)

-----------------------------------------------------------------------------
(* Claims about equalize, checked under SpecEq *)

EqDone == ret # "unset"

SamePosition == self0.chr = other.chr /\ self0.pos = other.pos

complement(allele) == [i \in DOMAIN allele |-> flip[allele[i]]]

\* both records are variants: ref and alt differ
Biallelic == self0.ref # self0.alt /\ other.ref # other.alt

\* (ref, alt) is A/T or C/G in either order
PalindromicPair(ref, alt) == {ref, alt} \in {{<<"A">>, <<"T">>}, {<<"C">>, <<"G">>}}

\* self's alleles, possibly strand-flipped, in the order of other's
SameOrder(s, o) ==
    /\ s.ref \in {o.ref, complement(o.ref)}
    /\ s.alt \in {o.alt, complement(o.alt)}

\* self's alleles, possibly strand-flipped, in the opposite order of other's
SwappedOrder(s, o) ==
    /\ s.ref \in {o.alt, complement(o.alt)}
    /\ s.alt \in {o.ref, complement(o.ref)}

ExactOrder(s, o) == s.ref = o.ref /\ s.alt = o.alt

ExactSwapped(s, o) == s.ref = o.alt /\ s.alt = o.ref

Swapped(s) == [s EXCEPT !.ref = s.alt, !.alt = s.ref, !.beta = NegBeta(s.beta)]

\* C5: for a non-palindromic other at self's position, equalize returns true
\* without mutation if self's alleles are other's in the same order up to
\* complement; otherwise returns true, swapping ref/alt and negating the effect,
\* if they are other's in swapped order up to complement; and returns false in
\* every remaining case.  (Stated for records whose ref and alt differ.)
C5_NonPalindromicTable ==
    (EqDone /\ SamePosition /\ Biallelic /\ ~PalindromicPair(other.ref, other.alt)) =>
        IF SameOrder(self0, other)
        THEN ret = "True" /\ self = self0
        ELSE IF SwappedOrder(self0, other)
             THEN ret = "True" /\ self = Swapped(self0)
             ELSE ret = "False"

\* C6: for a palindromic other (A/T, T/A, C/G, G/C) at self's position,
\* equalize reports a match if and only if self's (ref, alt) is other's
\* (ref, alt) or other's (alt, ref).
C6_PalindromicNeverFlipped ==
    (EqDone /\ SamePosition /\ PalindromicPair(other.ref, other.alt)) =>
        (ret = "True" <=> (ExactOrder(self0, other) \/ ExactSwapped(self0, other)))

C6_Witness ==
    /\ EqDone /\ SamePosition
    /\ PalindromicPair(other.ref, other.alt)
    /\ ExactSwapped(self0, other)
    /\ ret = "True"

\* a palindromic other and a self that a strand flip would have matched
C6_WitnessRejected ==
    /\ EqDone /\ SamePosition
    /\ PalindromicPair(other.ref, other.alt)
    /\ SameOrder(self0, other) /\ ~ExactOrder(self0, other) /\ ~ExactSwapped(self0, other)
    /\ ret # "True"

\* C7: for a and b at one position, each with distinct ref and alt,
\* equalize(a, b) reports a match if and only if equalize(b, a) does.
C7_RoleSymmetry ==
    (EqDone /\ SamePosition /\ Biallelic) =>
        (ret = "True" <=> equalize(other, self0).ret = "True")

\* C8: after equalize returns true, self.ref is other.ref or its complement
\* and self.alt is other.alt or its complement.  (Stated for records whose
\* ref and alt differ.)
C8_AlignedAfterMatch ==
    (EqDone /\ Biallelic /\ ret = "True") => SameOrder(self, other)

\* C9: whenever equalize returns true, self is either left as it was or has
\* ref/alt swapped and the effect negated (None stays None); a match in the
\* same allele order (exact, or by strand flip for a non-palindromic other)
\* leaves self unchanged, and a match in swapped order swaps and negates.
C9_SignConvention ==
    (EqDone /\ ret = "True") =>
        /\ \/ (self.ref = self0.ref /\ self.alt = self0.alt /\ self.beta = self0.beta)
           \/ (self.ref = self0.alt /\ self.alt = self0.ref
                 /\ self.beta = NegBeta(self0.beta)
                 /\ (self0.beta = None <=> self.beta = None))
        /\ (ExactOrder(self0, other)
              \/ (~PalindromicPair(other.ref, other.alt) /\ SameOrder(self0, other)))
             => self = self0
        /\ (ExactSwapped(self0, other) /\ self0.ref # self0.alt)
             => (self = Swapped(self0) /\ self.ref = other.ref /\ self.alt = other.alt)
        /\ self.id = self0.id /\ self.chr = self0.chr /\ self.pos = self0.pos

\* self G/A against other A/G with effect 2: swapped, effect -2
C9_Witness ==
    /\ EqDone /\ ret = "True"
    /\ self0.ref = <<"G">> /\ self0.alt = <<"A">> /\ self0.beta = <<2>>
    /\ other.ref = <<"A">> /\ other.alt = <<"G">>
    /\ self.ref = <<"A">> /\ self.alt = <<"G">> /\ self.beta = <<-2>>

\* self A/G against other T/C: matched by strand flip, nothing changes
C9_WitnessStrandFlip ==
    /\ EqDone /\ ret = "True"
    /\ self0.ref = <<"A">> /\ self0.alt = <<"G">> /\ self0.beta = <<2>>
    /\ other.ref = <<"T">> /\ other.alt = <<"C">>
    /\ self = self0

-----------------------------------------------------------------------------
(* Claims about the reader, checked under Spec and SpecMatch *)

IdsOf(seq) == {seq[i].id : i \in 1..Len(seq)}

\* the rows of the file on a contig of chrord
SupportedRows == {i \in 1..Len(source) : InChrord(source[i].chr)}

Unread(i) == i > cursor

Buffered(i) == i \in IdsOf(future)

Matched(i) == i \in returned

\* skipped by a get_match whose target sorts strictly after the record
SkippedBefore(i) ==
    \E sk \in discarded :
        sk[1] = i /\ Before(RowDat(source, i), [chr |-> sk[2], pos |-> sk[3]])

Count(b) == IF b THEN 1 ELSE 0

\* C1: under get_match calls with non-decreasing targets on a sorted file, every
\* row on a supported contig is in exactly one condition: unread, in future,
\* returned as a match, or skipped by a call whose target sorts strictly after
\* it; and a record at or after every target so far is never dropped.
C1_Conservation ==
    \A i \in SupportedRows :
        /\ Count(Unread(i)) + Count(Buffered(i)) + Count(Matched(i))
              + Count(SkippedBefore(i)) = 1
        /\ ~Before(RowDat(source, i), [chr |-> lastTarget[1], pos |-> lastTarget[2]])
              => (Unread(i) \/ Buffered(i) \/ Matched(i))

\* C2: put_back of a list of two or more records that get_next_data returned,
\* followed by get_next_data, returns the same list in the same order and leaves
\* the rest of future as it was.
C2_PutBackRoundTrip ==
    [][(/\ out.op = "put_back"
        /\ Len(out.metadat) >= 2
        /\ out'.op = "get_next_data")
          => (/\ out'.ret = "list"
              /\ out'.vars = out.metadat
              /\ future' = SubSeq(future, Len(out.metadat) + 1, Len(future)))]_vars

\* C3: when get_match(dat) returns None, no record at dat's (chr, pos) that was
\* not returned before, in future or unread in the file, equalizes with dat.
C3_NoMatchRulesOut ==
    (out.op = "get_match" /\ out.ret = "None") =>
        \A i \in SupportedRows :
            (/\ SameChrPos(RowDat(source, i), out.dat)
             /\ ~Matched(i)
             /\ (Unread(i) \/ Buffered(i)))
               => equalize(RowDat(source, i), out.dat).ret # "True"

\* C4: get_next_data returns None exactly when future is empty and the file
\* holds no further row on a supported contig; otherwise it returns a non-empty
\* list.
C4_EndOfStream ==
    [][out'.op = "get_next_data"
          => (/\ out'.ret = "None"
                   <=> (future = <<>> /\ \A i \in SupportedRows : i <= cursor)
              /\ out'.ret = "list" => Len(out'.vars) > 0)]_vars

\* the records a call handed to its caller
Handed(o) ==
    IF o.op = "get_next_data" THEN IdsOf(o.vars)
    ELSE IF o.op = "get_match" /\ o.ret = "match" THEN {o.v.id}
    ELSE {}

\* C10: over any sequence of get_next_data, put_back and get_match calls the
\* file position never decreases, every row is fetched at most once, and a
\* record a call hands out was fetched by that call or was in future before it.
C10_ForwardOnly ==
    [][/\ cursor' >= cursor
       /\ \A i \in 1..Len(source) :
             /\ reads'[i] <= 1
             /\ reads'[i] = Count(i <= cursor')
       /\ Handed(out') \subseteq (IdsOf(future) \cup ((cursor + 1)..cursor'))]_vars

\* the whole file was read, each row once, and the last get_next_data returned
\* records that had been put back (they come in the order put_back left them)
C10_Witness ==
    /\ Len(source) >= 3
    /\ cursor = Len(source)
    /\ \A i \in 1..Len(source) : reads[i] = 1
    /\ out.op = "get_next_data" /\ out.ret = "list"
    /\ Len(out.vars) >= 2
    /\ out.vars[1].id > out.vars[2].id

\* C17: a record get_match returns as a match was not returned by an earlier
\* call; a returned record is not in future, is not unread in the file, and is
\* in no batch a later call skips or scans.
C17_NoDuplication ==
    [][/\ (out'.op = "get_match" /\ out'.ret = "match") => out'.v.id \notin returned
       /\ returned' \cap IdsOf(future') = {}
       /\ \A i \in returned' : i <= cursor'
       /\ out'.op = "get_match" => IdsOf(out'.scanned) \cap returned = {}
       /\ \A sk \in discarded' \ discarded : sk[1] \notin returned]_vars

\* two records tied at one position were returned as matches by two calls,
\* and a record read with them waits in future
C17_Witness ==
    /\ \E i, j \in returned :
          i # j /\ SameChrPos(RowDat(source, i), RowDat(source, j))
    /\ Len(future) > 0

\* the number of rows on a supported contig at the position of row i
Ties(i) ==
    Cardinality({j \in SupportedRows : SameChrPos(RowDat(source, j), RowDat(source, i))})

\* the largest number of supported rows of the file sharing one position
MaxTies ==
    IF SupportedRows = {} THEN 0
    ELSE CHOOSE n \in 1..Len(source) :
            /\ \E i \in SupportedRows : Ties(i) = n
            /\ \A i \in SupportedRows : Ties(i) <= n

\* C18: future holds records of at most two positions: records of one position
\* followed by at most one record of a later position; it is never longer than
\* the largest number of rows sharing one position plus one.
C18_BoundedBuffer ==
    /\ Cardinality({<<future[i].chr, future[i].pos>> : i \in 1..Len(future)}) <= 2
    /\ \A i \in 1..(Len(future) - 1) :
          IF i + 1 < Len(future)
          THEN SameChrPos(future[i], future[i + 1])
          ELSE SameChrPos(future[i], future[i + 1]) \/ Before(future[i], future[i + 1])
    /\ Len(future) <= MaxTies + 1

\* future holds two tied records followed by the lookahead record of a later
\* position
C18_Witness ==
    /\ Len(future) = 3
    /\ SameChrPos(future[1], future[2])
    /\ Before(future[2], future[3])

\* C19: an equalize call that does not report a match leaves self as it was;
\* so every record in future has the field values of the row it was read from,
\* a record returned as a match is that row or its ref/alt swap with the effect
\* negated, and the record get_match is called with is not changed by the call.
C19_FrameCondition ==
    /\ \A i \in SupportedRows : \A dat \in Targets :
          equalize(RowDat(source, i), dat).ret # "True"
              => equalize(RowDat(source, i), dat).self = RowDat(source, i)
    /\ \A k \in 1..Len(future) : future[k] = RowDat(source, future[k].id)
    /\ (out.op = "get_match" /\ out.ret = "match")
          => out.v \in {RowDat(source, out.v.id), Swapped(RowDat(source, out.v.id))}
    /\ out.op = "get_match" => out.dat \in Targets

\* a call scanned records at its target's position, none equalized, and they
\* are all back in future
C19_Witness ==
    /\ out.op = "get_match" /\ out.ret = "None"
    /\ Len(out.scanned) >= 2
    /\ \A k \in 1..Len(out.scanned) :
          /\ SameChrPos(out.scanned[k], out.dat)
          /\ \E m \in 1..Len(future) : future[m] = out.scanned[k]

-----------------------------------------------------------------------------
(* Claims about the combiners, checked under SpecMeta *)

MetaDone == meta # NoMeta

\* the combiner of method m ran in the call and did r
Did(m, r) == \E k \in 1..Len(meta.methods) : meta.methods[k] = m /\ meta.met[k].ret = r

Ran(m) == \E k \in 1..Len(meta.methods) : meta.methods[k] = m

\* what the combiner of method m returned
MetOf(m) == meta.met[CHOOSE k \in 1..Len(meta.methods) : meta.methods[k] = m]

SomeNoSe == \E i \in 1..Len(study_list) : NoSe(study_list[i].dat)

\* C11: inv_var_meta and variance_weight_meta return None, without raising,
\* if and only if some pair of the list has no standard error or a standard
\* error of 0, wherever it is in the list; otherwise they return a p-value.
C11_UnavailableIffNoSe ==
    \A m \in {"inv_var", "variance"} :
        (MetaDone /\ Ran(m)) =>
            /\ SomeNoSe => Did(m, "None")
            /\ ~SomeNoSe => Did(m, "p")

\* a row's effect or p-value field is not a number
Unparsable(row) == ~row.effect.ok \/ ~row.pval.ok

\* C12: a row whose effect or p-value is not a number gives a record with
\* effect and p-value both None, and a do_meta call on a list holding such a
\* record returns (None for the group) and does not raise.
C12_UnparsableRowIsUnavailable ==
    \A i \in 1..Len(study_list) :
        Unparsable(study_list[i].row) =>
            /\ study_list[i].dat.beta = None /\ study_list[i].dat.pval = None
            /\ MetaDone => \A m \in MethodNames : Ran(m) => Did(m, "None")

\* C15: a study's effective size is 4 * cases * controls / (cases + controls),
\* also when cases and controls differ.
C15_EffectiveSize ==
    (MetaDone /\ Did("n", "p")) =>
        \A i \in 1..Len(study_list) :
            LET conf == study_list[i].study
            IN /\ MetOf("n").num[i].w = effective_size(conf)
               /\ effective_size(conf).n * (conf.n_cases + conf.n_controls)
                     = 4 * conf.n_cases * conf.n_controls * effective_size(conf).d

RECURSIVE SumBetaOverVar(_, _)
\* the sum of beta / se^2 over the records of list from index k on
SumBetaOverVar(list, k) ==
    IF k > Len(list) THEN Rat(0, 1)
    ELSE RatAdd(Rat(list[k].dat.beta[1], list[k].dat.se[1] * list[k].dat.se[1]),
                SumBetaOverVar(list, k + 1))

RECURSIVE SumOneOverVar(_, _)
\* the sum of 1 / se^2 over the records of list from index k on
SumOneOverVar(list, k) ==
    IF k > Len(list) THEN Rat(0, 1)
    ELSE RatAdd(Rat(1, list[k].dat.se[1] * list[k].dat.se[1]),
                SumOneOverVar(list, k + 1))

\* C16: the p-value of inv_var_meta is computed from the numerator
\* sum(beta_i / se_i^2) and the denominator sqrt(sum(1 / se_i^2)).
C16_InverseVarianceWeights ==
    (MetaDone /\ Did("inv_var", "p")) =>
        /\ RatEq(MetOf("inv_var").num, SumBetaOverVar(study_list, 1))
        /\ RatEq(MetOf("inv_var").tot, SumOneOverVar(study_list, 1))

-----------------------------------------------------------------------------
(* Claims about run, checked under SpecRun and SpecRunFair *)

\* the fields of the header line, once written
Header == outfile[1].fields

\* the indices in outfile of the data lines
DataLines == 2..Len(outfile)

\* C13: every data line has as many fields as the header has columns, the
\* all_meta_N column holds the count or NA, and a line written for an anchor
\* record without a match has as many fields as one written for a record with
\* a match.
C13_RowLayout ==
    \A i \in DataLines :
        /\ Len(outfile[i].fields) = Len(Header)
        /\ \A c \in 1..Len(Header) :
              Header[c] = Col("all", "meta_N") => outfile[i].fields[c] \in {"N", "NA"}
        /\ \A j \in DataLines : Len(outfile[j].fields) = Len(outfile[i].fields)

\* the rows of the anchor's file on a contig of chrord
AnchorSupported == {i \in 1..Len(studs[1].source) : InChrord(studs[1].source[i].chr)}

RECURSIVE Ascending(_)
\* the elements of a set of numbers in ascending order
Ascending(S) ==
    IF S = {} THEN <<>>
    ELSE LET least == CHOOSE x \in S : \A y \in S : x <= y
         IN <<least>> \o Ascending(S \ {least})

\* the anchor rows the data lines were written for, in the file's order
Written == [i \in 1..(Len(outfile) - 1) |-> outfile[i + 1].of]

\* the anchor records pulled so far, in the anchor file's order
Pulled == Ascending({i \in AnchorSupported : i <= studs[1].cursor})

\* the other studies, in the order of the configuration
Others == [k \in 1..(Len(studs) - 1) |-> k + 1]

RECURSIVE CallsFor(_, _)
\* the get_match calls due for the anchor records of list from index n on:
\* for each record one call on each other study, in the configuration's order
CallsFor(list, n) ==
    IF n > Len(list) THEN <<>>
    ELSE [k \in 1..Len(Others) |-> <<list[n], Others[k]>>] \o CallsFor(list, n + 1)

\* the anchor row and study of each get_match call made so far
CallsMade == [n \in 1..Len(calls) |-> <<calls[n][1], calls[n][2]>>]

\* C14: run writes one data line for each row of the anchor's file on a
\* supported contig, in the file's order and to its last row; for each anchor
\* record get_match is called once on every other study, in the configuration's
\* order, before the next anchor record is pulled.
C14_AnchorDrives ==
    /\ pc \in {"done", "raised"} => Written = Ascending(AnchorSupported)
    /\ pc \in {"header", "pull"} =>
          /\ Written = Pulled
          /\ CallsMade = CallsFor(Pulled, 1)
    /\ pc \in {"match", "write"} =>
          /\ Written \o <<d.id>> = Pulled
          /\ CallsMade = CallsFor(Written, 1)
                \o [k \in 1..(IF pc = "write" THEN Len(Others) ELSE oth - 2) |->
                       <<d.id, Others[k]>>]

\* the study at index k has read its whole file and holds nothing in future
Exhausted(k) ==
    studs[k].cursor = Len(studs[k].source) /\ studs[k].future = <<>>

\* C20: unless a call raises, run reaches its end, which it does when the
\* anchor's get_next_data returns None; every get_match call returns; a
\* get_match call on a study that has read its whole file and holds nothing in
\* future returns None and leaves the study as it was.
C20_Termination ==
    /\ <>(pc = "done" \/ pc = "raised")
    /\ [][pc' = "done" => (pc = "pull" /\ Exhausted(1)')]_vars
    /\ [][(pc = "match" /\ Exhausted(oth)) =>
             /\ Len(calls') = Len(calls) + 1
             /\ calls'[Len(calls')] = <<d.id, oth, "None">>
             /\ studs' = studs]_vars

\* run has ended after data lines were written, and get_match was called on a
\* study that had nothing more to give
C20_Witness ==
    /\ pc = "done"
    /\ Len(outfile) >= 3
    /\ \E n \in 1..Len(calls) : calls[n][3] = "None" /\ Exhausted(calls[n][2])
    /\ \E n \in 1..Len(calls) : calls[n][3] = "match"

====
